---- MODULE Spec2Model ----
(***************************************************************************)
(* Model of src/app.py: the column type detection (detect_column_types,    *)
(* get_column_types), the spreadsheet branch of the upload handler         *)
(* (two-row header merge, numeric cell conversion) and the page script as  *)
(* a whole, run once per user interaction on the session state.            *)
(*                                                                         *)
(* Text is a sequence of one-character strings, so that strip, upper,      *)
(* replace and the regular expressions of the source are computed and not  *)
(* assumed.  A number is an integer count of hundredths.                   *)
(***************************************************************************)
EXTENDS Integers, Sequences, FiniteSets, TLC

VARIABLES
    df,            \* the DataFrame being processed (local df of the source)
    src,           \* the DataFrame as it was before the latest call on it
    tipe_data,     \* result of get_column_types
    passes,        \* number of detect_column_types calls made on df
    raised,        \* name of the function whose exception reached the caller
    raw_data,      \* rows read from the workbook, all cells text
    new_columns,   \* column names built by the header merge
    pc,            \* position in the code
    session_state, \* st.session_state: data_manual, nama_kolom_manual,
                   \* tipe_data_kolom
    widgets,       \* the values the widgets hold between two runs
    display_df,    \* the table the latest run displayed and analysed
    shown,         \* the parts of the page the latest run rendered
    last           \* the latest interaction: its kind, what the upload block
                   \* and the editor update did, the session before it, the
                   \* number of edits made so far, whether the uploader
                   \* has been left untouched so far

engine == <<df, src, tipe_data, passes, raised, raw_data, new_columns, pc>>
session == <<session_state, widgets, display_df, shown, last>>
vars == <<df, src, tipe_data, passes, raised, raw_data, new_columns, pc,
          session_state, widgets, display_df, shown, last>>

(***************************************************************************)
(* Bounds of the model.                                                    *)
(***************************************************************************)
MaxRows == 11      \* rows of a one-column table
MaxPasses == 2     \* calls of detect_column_types on one table

(***************************************************************************)
(* Program constants.                                                      *)
(***************************************************************************)
PercentNeeded == 70    \* 0.7 * len(df)
CategoryMax == 10      \* nunique() <= 10

Scale == 10 * 10       \* a number v stands for v / Scale

(***************************************************************************)
(* Text: Python str operations used by the source.                         *)
(***************************************************************************)
Digits == <<"0", "1", "2", "3", "4", "5", "6", "7", "8", "9">>
LowerLetters == <<"a", "b", "c", "d", "e", "f", "g", "h", "i", "j", "k", "l", "m",
                  "n", "o", "p", "q", "r", "s", "t", "u", "v", "w", "x", "y", "z">>
UpperLetters == <<"A", "B", "C", "D", "E", "F", "G", "H", "I", "J", "K", "L", "M",
                  "N", "O", "P", "Q", "R", "S", "T", "U", "V", "W", "X", "Y", "Z">>

IsDigit(c) == \E i \in 1..10 : Digits[i] = c
DigitVal(c) == (CHOOSE i \in 1..10 : Digits[i] = c) - 1
IsSpace(c) == c = " "

AllDigits(s) == \A i \in 1..Len(s) : IsDigit(s[i])

RECURSIVE NatVal(_)
NatVal(s) ==
    IF s = <<>> THEN 0
    ELSE 10 * NatVal(SubSeq(s, 1, Len(s) - 1)) + DigitVal(s[Len(s)])

\* str(i) for a natural number i
RECURSIVE NatToText(_)
NatToText(i) ==
    IF i < 10 THEN <<Digits[i + 1]>>
    ELSE NatToText(i \div 10) \o <<Digits[(i % 10) + 1]>>

UpperChar(c) ==
    IF \E i \in 1..26 : LowerLetters[i] = c
    THEN UpperLetters[CHOOSE i \in 1..26 : LowerLetters[i] = c]
    ELSE c

upper(s) == [i \in 1..Len(s) |-> UpperChar(s[i])]

RECURSIVE lstrip(_)
lstrip(s) == IF s # <<>> /\ IsSpace(Head(s)) THEN lstrip(Tail(s)) ELSE s

RECURSIVE rstrip(_)
rstrip(s) ==
    IF s # <<>> /\ IsSpace(s[Len(s)]) THEN rstrip(SubSeq(s, 1, Len(s) - 1)) ELSE s

strip(s) == rstrip(lstrip(s))

\* `sub in s`
contains(s, sub) ==
    \E i \in 0..(Len(s) - Len(sub)) : SubSeq(s, i + 1, i + Len(sub)) = sub

\* s.replace(',', '.')
replace_comma(s) == [i \in 1..Len(s) |-> IF s[i] = "," THEN "." ELSE s[i]]

\* re.match(r'^\d*\.?\d+$', s)
match_numeric(s) ==
    \E k \in 0..Len(s) :
        /\ AllDigits(SubSeq(s, 1, k))
        /\ \/ /\ k < Len(s)
              /\ AllDigits(SubSeq(s, k + 1, Len(s)))
           \/ /\ k + 1 < Len(s)
              /\ s[k + 1] = "."
              /\ AllDigits(SubSeq(s, k + 2, Len(s)))

\* re.search(r'\d+[/-]\d+', s)
contains_datelike(s) ==
    \E i \in 1..(Len(s) - 2) :
        IsDigit(s[i]) /\ s[i + 1] \in {"/", "-"} /\ IsDigit(s[i + 2])

(***************************************************************************)
(* Cells, columns (Series) and tables (DataFrame).                         *)
(* A cell is text, a number, a timestamp or missing (NaN / NaT / None).    *)
(***************************************************************************)
Str(s) == [k |-> "str", s |-> s, v |-> 0, d |-> <<>>]
Num(v) == [k |-> "num", s |-> <<>>, v |-> v, d |-> <<>>]
NaN == [k |-> "nan", s |-> <<>>, v |-> 0, d |-> <<>>]
\* a timestamp read from a date text
TsDate(d) == [k |-> "ts", s |-> <<>>, v |-> 0, d |-> d]
\* a timestamp v nanoseconds after 1970-01-01 (a number read with unit ns)
TsNs(v) == [k |-> "ts", s |-> <<>>, v |-> v, d |-> <<1970, 1, 1, 0, 0, 0>>]

Series(name, dtype, cells) == [name |-> name, dtype |-> dtype, cells |-> cells]
DataFrame(cols) == [cols |-> cols]
EmptyFrame == DataFrame(<<>>)

len(frame) == IF frame.cols = <<>> THEN 0 ELSE Len(frame.cols[1].cells)
columns(frame) == [i \in 1..Len(frame.cols) |-> frame.cols[i].name]
Cols(frame) == 1..Len(frame.cols)
notna_sum(c) == Cardinality({i \in 1..Len(c.cells) : c.cells[i].k # "nan"})

(***************************************************************************)
(* pandas conversions, errors='coerce'.                                    *)
(*                                                                         *)
(* pd.to_numeric reads a text cell as Python float() does: optional sign,  *)
(* digits with at most one '.', surrounding blanks ignored; a ',' is not a *)
(* decimal separator and makes the cell unparsable.                        *)
(*                                                                         *)
(* pd.to_datetime reads a number as nanoseconds since 1970-01-01, whatever *)
(* the column's dtype.  A text cell parses when it carries a year in the   *)
(* nanosecond range: YYYY-MM-DD, YYYY-MM-DD HH:MM:SS or a bare YYYY.  A    *)
(* numeric text below 1000, a text without year, a label: NaT.             *)
(***************************************************************************)
Unsigned(t) == IF t # <<>> /\ t[1] \in {"+", "-"} THEN Tail(t) ELSE t
DotAt(u) == {i \in 1..Len(u) : u[i] = "."}

IsFloatText(s) ==
    LET u == Unsigned(strip(s))
    IN  /\ Cardinality(DotAt(u)) <= 1
        /\ \A i \in 1..Len(u) : IsDigit(u[i]) \/ u[i] = "."
        /\ \E i \in 1..Len(u) : IsDigit(u[i])

IsIntText(s) == IsFloatText(s) /\ DotAt(strip(s)) = {}

\* the value of a float text, in hundredths (digits after the second are cut)
FloatValue(s) ==
    LET t == strip(s)
        u == Unsigned(t)
        p == IF DotAt(u) = {} THEN Len(u) + 1 ELSE CHOOSE i \in DotAt(u) : TRUE
        f == SubSeq(u, p + 1, Len(u))
        frac == IF Len(f) = 0 THEN 0
                ELSE IF Len(f) = 1 THEN 10 * DigitVal(f[1])
                ELSE 10 * DigitVal(f[1]) + DigitVal(f[2])
        mag == NatVal(SubSeq(u, 1, p - 1)) * Scale + frac
    IN  IF t[1] = "-" THEN 0 - mag ELSE mag

IsLeap(y) == y % 4 = 0 /\ (y % 100 # 0 \/ y % 400 = 0)
DaysIn(y, m) ==
    IF m = 2 THEN (IF IsLeap(y) THEN 29 ELSE 28)
    ELSE IF m \in {4, 6, 9, 11} THEN 30 ELSE 31

\* pandas Timestamp.min / Timestamp.max years that are wholly representable
InNsRange(y) == y >= 1678 /\ y <= 2261

Field(s, a, b) == NatVal(SubSeq(s, a, b))

IsIsoDate(s) ==
    /\ Len(s) = 10
    /\ s[5] = "-" /\ s[8] = "-"
    /\ AllDigits(SubSeq(s, 1, 4)) /\ AllDigits(SubSeq(s, 6, 7))
    /\ AllDigits(SubSeq(s, 9, 10))
    /\ InNsRange(Field(s, 1, 4))
    /\ Field(s, 6, 7) \in 1..12
    /\ Field(s, 9, 10) \in 1..DaysIn(Field(s, 1, 4), Field(s, 6, 7))

IsIsoDateTime(s) ==
    /\ Len(s) = 19
    /\ IsIsoDate(SubSeq(s, 1, 10))
    /\ s[11] = " " /\ s[14] = ":" /\ s[17] = ":"
    /\ AllDigits(SubSeq(s, 12, 13)) /\ AllDigits(SubSeq(s, 15, 16))
    /\ AllDigits(SubSeq(s, 18, 19))
    /\ Field(s, 12, 13) < 24 /\ Field(s, 15, 16) < 60 /\ Field(s, 18, 19) < 60

IsYear(s) == Len(s) = 4 /\ AllDigits(s) /\ InNsRange(NatVal(s))

StrToTs(s) ==
    IF IsIsoDate(s)
    THEN TsDate(<<Field(s, 1, 4), Field(s, 6, 7), Field(s, 9, 10), 0, 0, 0>>)
    ELSE IF IsIsoDateTime(s)
    THEN TsDate(<<Field(s, 1, 4), Field(s, 6, 7), Field(s, 9, 10),
                  Field(s, 12, 13), Field(s, 15, 16), Field(s, 18, 19)>>)
    ELSE IF IsYear(s) THEN TsDate(<<NatVal(s), 1, 1, 0, 0, 0>>)
    ELSE NaN

CellToTs(x) ==
    CASE x.k = "ts" -> x
      [] x.k = "num" -> TsNs(x.v)
      [] x.k = "str" -> StrToTs(x.s)
      [] OTHER -> NaN

CellToNum(x) ==
    CASE x.k = "num" -> x
      [] x.k = "str" -> IF IsFloatText(x.s) THEN Num(FloatValue(x.s)) ELSE NaN
      [] OTHER -> NaN

\* pd.to_datetime(series, errors='coerce')
to_datetime(c) ==
    Series(c.name, "datetime64[ns]",
           [i \in 1..Len(c.cells) |-> CellToTs(c.cells[i])])

IsIntCell(x) ==
    \/ x.k = "num" /\ x.v % Scale = 0
    \/ x.k = "str" /\ IsIntText(x.s)

\* pd.to_numeric(series, errors='coerce'): int64 when every cell is an
\* integer, float64 as soon as one is fractional or missing
to_numeric(c) ==
    Series(c.name,
           IF \A i \in 1..Len(c.cells) : IsIntCell(c.cells[i])
           THEN "int64" ELSE "float64",
           [i \in 1..Len(c.cells) |-> CellToNum(c.cells[i])])

(***************************************************************************)
(* detect_column_types and get_column_types.                               *)
(***************************************************************************)
\* the test written with >= instead of >
enough_inclusive(count, n) == 100 * count >= PercentNeeded * n

\* the test written with 0.5 instead of 0.7
enough_half(count, n) == 100 * count > 50 * n

\* count > 0.7 * len(df)
enough(count, n) == 100 * count > PercentNeeded * n

\* the two attempts in the other order: numeric first, datetime only for a
\* column that did not become numeric
DetectColumnNumericFirst(c, n) ==
    LET nm == to_numeric(c)
        c1 == IF c.dtype = "object" /\ enough(notna_sum(nm), n) THEN nm ELSE c
        dt == to_datetime(c1)
    IN  IF c1.dtype \notin {"int64", "float64"} /\ enough(notna_sum(dt), n)
        THEN dt ELSE c1

\* one iteration of the loop of detect_column_types, for a column whose
\* name is unique in the table: datetime first, numeric only if the column
\* is still of dtype object
DetectColumn(c, n) ==
    LET dt == to_datetime(c)
        c1 == IF enough(notna_sum(dt), n) THEN dt ELSE c
        nm == to_numeric(c1)
    IN  IF c1.dtype = "object" /\ enough(notna_sum(nm), n) THEN nm ELSE c1

\* positions whose name is borne by another column too: df[col] is then a
\* DataFrame, which has no attribute dtype
Duplicated(frame) ==
    {i \in 1..Len(frame.cols) :
        \E j \in 1..Len(frame.cols) :
            j # i /\ frame.cols[j].name = frame.cols[i].name}

Least(S) == CHOOSE i \in S : \A j \in S : i <= j

\* The loop runs left to right and changes df in place.  At a duplicated
\* name pd.to_datetime raises inside the try (swallowed) and df[col].dtype
\* raises outside it: the exception leaves the function.
detect_column_types(frame) ==
    LET dup == Duplicated(frame)
        stop == IF dup = {} THEN Len(frame.cols) + 1 ELSE Least(dup)
    IN  [raised |-> dup # {},
         df |-> DataFrame([i \in 1..Len(frame.cols) |->
                    IF i < stop THEN DetectColumn(frame.cols[i], len(frame))
                    ELSE frame.cols[i]])]

\* Series.nunique(): distinct values, missing ones left out; an empty text
\* is a value
nunique(c) ==
    Cardinality({c.cells[i] : i \in 1..Len(c.cells)} \ {NaN})

ColumnType(c) ==
    IF c.dtype \in {"int64", "float64"} THEN "number (angka)"
    ELSE IF c.dtype = "datetime64[ns]" THEN "date (tanggal)"
    ELSE IF nunique(c) <= CategoryMax THEN "category (kategori)"
    ELSE "text (teks)"

get_column_types(frame) ==
    [raised |-> Duplicated(frame) # {},
     tipe_data |-> [i \in 1..Len(frame.cols) |-> ColumnType(frame.cols[i])]]

(***************************************************************************)
(* The session state and the widgets as a fresh session has them.          *)
(***************************************************************************)
\* lines 287-292
NewSession ==
    [data_manual |-> EmptyFrame, nama_kolom_manual |-> <<>>,
     tipe_data_kolom |-> <<>>]

\* uploaded_file is None
NoFile == [type |-> "none", df |-> EmptyFrame]

\* st.data_editor without pending edits, shown over the table data
NoEdits(data) ==
    [data |-> data, edited_rows |-> {}, added_rows |-> <<>>, deleted_rows |-> {}]

NewWidgets ==
    [input_method |-> "Upload File", uploaded_file |-> NoFile,
     analysis_type |-> "Data Editor", data_editor |-> NoEdits(EmptyFrame),
     stat_type |-> "ANOVA (One-Way ANOVA)"]

\* no interaction yet
NoButton == [button |-> "none", nama_kolom |-> <<>>, tipe_data |-> ""]
NoTest == [test |-> "none", outcome |-> "none", groups |-> 0]

NoInteraction ==
    [event |-> "start", upload |-> "none", update |-> "none",
     before |-> NewSession, edits |-> 0, by_hand |-> TRUE,
     pressed |-> NoButton, manual |-> "none", stat |-> NoTest]

SessionIdle ==
    /\ session_state = NewSession
    /\ widgets = NewWidgets
    /\ display_df = EmptyFrame
    /\ shown = {}
    /\ last = NoInteraction

(***************************************************************************)
(* Input tables of the coercion engine.                                    *)
(* A text column is a block of numeric texts, a block of labels, a block   *)
(* of date texts and a block of blank cells; a blank cell is NaN (as       *)
(* pd.read_csv gives it) or '' (as the spreadsheet branch gives it).       *)
(***************************************************************************)
Styles == {"int", "dec", "comma", "year"}

NumText(i, style) ==
    CASE style = "int" -> NatToText(i)
      [] style = "dec" -> NatToText(i) \o <<".", "5">>
      [] style = "comma" -> NatToText(i) \o <<",", "5">>
      [] OTHER -> NatToText(2000 + i)

Label(j) ==
    IF j = 1 THEN <<"T", "0">>
    ELSE IF j = 2 THEN <<"T", "1">>
    ELSE <<"g">> \o NatToText(j)

DateText(j) ==
    <<"2", "0", "2", "4", "-", "0", "1", "-">>
        \o (IF j < 10 THEN <<"0">> ELSE <<>>) \o NatToText(j)

Blanks == {NaN, Str(<<>>)}

TextCells(a, b, c, e, style, blank) ==
    [i \in 1..(a + b + c + e) |->
        IF i <= a THEN Str(NumText(i, style))
        ELSE IF i <= a + b THEN Str(Label(i - a))
        ELSE IF i <= a + b + c THEN Str(DateText(i - a - b))
        ELSE blank]

\* a numeric column as pd.read_csv gives it: a numbers, e missing
NumberCells(a, e) ==
    [i \in 1..(a + e) |-> IF i <= a THEN Num(i * Scale) ELSE NaN]

NameA == <<"a">>
NameB == <<"b">>

\* the examples of section 8 of the specification
ExampleNumeric ==
    <<Str(<<"1">>), Str(<<"2", ",", "5">>), Str(<<"3", ".", "1">>)>>
ExampleCategory ==
    <<Str(<<"A">>), Str(<<"B">>), Str(<<"A">>), Str(<<"C">>), Str(<<"B">>)>>

OneColumnTables ==
    {DataFrame(<<Series(NameA, "object", TextCells(q[1], q[2], q[3], q[4], st, bl))>>) :
        q \in {p \in (0..MaxRows) \X (0..MaxRows) \X (0..MaxRows) \X (0..MaxRows) :
                  /\ p[1] + p[2] + p[3] + p[4] \in 1..MaxRows
                  /\ (p[1] = 0 \/ p[2] = 0 \/ p[3] = 0)},
        st \in Styles, bl \in Blanks}
    \cup
    {DataFrame(<<Series(NameA, IF q[2] = 0 THEN "int64" ELSE "float64",
                        NumberCells(q[1], q[2]))>>) :
        q \in {p \in (0..MaxRows) \X (0..MaxRows) : p[1] + p[2] \in 1..MaxRows}}
    \cup
    {DataFrame(<<Series(NameA, "object", ExampleNumeric)>>),
     DataFrame(<<Series(NameA, "object", ExampleCategory)>>)}

WideRows == 3
WideColumns(name) ==
    {Series(name, "object", TextCells(q[1], q[2], q[3], q[4], "int", NaN)) :
        q \in {p \in (0..WideRows) \X (0..WideRows) \X (0..WideRows) \X (0..WideRows) :
                  p[1] + p[2] + p[3] + p[4] = WideRows}}

TwoColumnTables ==
    {DataFrame(<<c1, c2>>) :
        c1 \in WideColumns(NameA), c2 \in WideColumns(NameA) \cup WideColumns(NameB)}

InputTables == OneColumnTables \cup TwoColumnTables

(***************************************************************************)
(* SpecCoerce: the engine applied to an input table.                       *)
(***************************************************************************)
InitCoerce ==
    /\ df \in InputTables
    /\ src = df
    /\ tipe_data = <<>>
    /\ passes = 0
    /\ raised = ""
    /\ raw_data = <<>>
    /\ new_columns = <<>>
    /\ pc = "engine"
    /\ SessionIdle

\* df = detect_column_types(df)
Coerce ==
    /\ pc = "engine" /\ raised = "" /\ passes < MaxPasses
    /\ LET r == detect_column_types(df)
       IN  /\ df' = r.df
           /\ raised' = IF r.raised THEN "detect_column_types" ELSE ""
    /\ src' = df
    /\ passes' = passes + 1
    /\ tipe_data' = <<>>
    /\ UNCHANGED <<raw_data, new_columns, pc>>
    /\ UNCHANGED session

\* tipe_data = get_column_types(df)
Types ==
    /\ pc = "engine" /\ raised = "" /\ tipe_data = <<>>
    /\ LET r == get_column_types(df)
       IN  /\ tipe_data' = IF r.raised THEN <<>> ELSE r.tipe_data
           /\ raised' = IF r.raised THEN "get_column_types" ELSE ""
    /\ UNCHANGED <<df, src, passes, raw_data, new_columns, pc>>
    /\ UNCHANGED session

NextCoerce == Coerce \/ Types

SpecCoerce == InitCoerce /\ [][NextCoerce]_vars

(***************************************************************************)
(* The spreadsheet branch of the upload handler, from raw_data on.         *)
(***************************************************************************)
T_nan == <<"n", "a", "n">>
T_Column_ == <<"C", "o", "l", "u", "m", "n", "_">>

\* 'BIOKIMIA', 'KINERJA', 'REPRODUKSI', 'DARAH', 'PRODUKTIF'
CategoryWords ==
    {<<"B", "I", "O", "K", "I", "M", "I", "A">>,
     <<"K", "I", "N", "E", "R", "J", "A">>,
     <<"R", "E", "P", "R", "O", "D", "U", "K", "S", "I">>,
     <<"D", "A", "R", "A", "H">>,
     <<"P", "R", "O", "D", "U", "K", "T", "I", "F">>}

\* 'NO', 'ID', 'BCS', 'KATEGORI'
DenyEqual ==
    {<<"N", "O">>, <<"I", "D">>, <<"B", "C", "S">>,
     <<"K", "A", "T", "E", "G", "O", "R", "I">>}

\* 'TANGGAL', 'TGL', 'WAKTU', 'JAM', 'TIME', 'DATE'
DenyContained ==
    {<<"T", "A", "N", "G", "G", "A", "L">>, <<"T", "G", "L">>,
     <<"W", "A", "K", "T", "U">>, <<"J", "A", "M">>,
     <<"T", "I", "M", "E">>, <<"D", "A", "T", "E">>}

\* the cells of header1 that hold a category word, as they stand (not
\* stripped)
categories(header1) ==
    {header1[i] : i \in {j \in 1..Len(header1) :
        \E w \in CategoryWords : contains(upper(header1[j]), w)}}

\* the synthetic name numbered from 1 instead of 0
column_name_from_one(header1, header2, i) ==
    LET main_header == strip(header1[i])
        sub_header == strip(header2[i])
        col_name ==
            IF main_header \in categories(header1) THEN sub_header
            ELSE IF main_header = T_nan \/ main_header = sub_header
                    \/ main_header = <<>>
            THEN sub_header
            ELSE main_header
    IN  IF col_name # T_nan /\ col_name # <<>> THEN col_name
        ELSE T_Column_ \o NatToText(i)

\* the final name of the column at position i (the source counts from 0)
column_name(header1, header2, i) ==
    LET main_header == strip(header1[i])
        sub_header == strip(header2[i])
        col_name ==
            IF main_header \in categories(header1) THEN sub_header
            ELSE IF main_header = T_nan \/ main_header = sub_header
                    \/ main_header = <<>>
            THEN sub_header
            ELSE main_header
    IN  IF col_name # T_nan /\ col_name # <<>> THEN col_name
        ELSE T_Column_ \o NatToText(i - 1)

merge_headers(header1, header2) ==
    [i \in 1..Len(header1) |-> column_name(header1, header2, i)]

\* pd.DataFrame(data, columns=new_columns): every cell is text
frame_of(data, names) ==
    DataFrame([j \in 1..Len(names) |->
        Series(names[j], "object", [i \in 1..Len(data) |-> Str(data[i][j])])])

denied(col) ==
    \/ upper(col) \in DenyEqual
    \/ \E w \in DenyContained : contains(upper(col), w)

\* the loop body with the date-like cells left out one by one instead of
\* the column being skipped
convert_numeric_by_value(c) ==
    LET cleaned == [i \in 1..Len(c.cells) |-> strip(c.cells[i].s)]
        is_numeric == [i \in 1..Len(c.cells) |->
                          /\ match_numeric(replace_comma(cleaned[i]))
                          /\ ~contains_datelike(cleaned[i])]
    IN  IF denied(c.name) THEN c
        ELSE IF \E i \in 1..Len(c.cells) : is_numeric[i]
        THEN [c EXCEPT !.cells = [i \in 1..Len(c.cells) |->
                 IF is_numeric[i]
                 THEN CellToNum(Str(replace_comma(cleaned[i])))
                 ELSE c.cells[i]]]
        ELSE c

\* the body of the loop "Konversi nilai numerik dengan hati-hati" for a
\* column whose name is unique
convert_numeric(c) ==
    LET cleaned == [i \in 1..Len(c.cells) |-> strip(c.cells[i].s)]
        is_numeric == [i \in 1..Len(c.cells) |->
                          match_numeric(replace_comma(cleaned[i]))]
    IN  IF denied(c.name) THEN c
        ELSE IF \E i \in 1..Len(c.cells) : contains_datelike(cleaned[i]) THEN c
        ELSE IF \E i \in 1..Len(c.cells) : is_numeric[i]
        THEN [c EXCEPT !.cells = [i \in 1..Len(c.cells) |->
                 IF is_numeric[i]
                 THEN CellToNum(Str(replace_comma(cleaned[i])))
                 ELSE c.cells[i]]]
        ELSE c

\* at a duplicated name df[col] is a DataFrame, .str raises and the bare
\* except continues with the next column
convert_all(frame) ==
    DataFrame([j \in 1..Len(frame.cols) |->
        IF j \in Duplicated(frame) THEN frame.cols[j]
        ELSE convert_numeric(frame.cols[j])])

RECURSIVE Pick(_, _, _)
Pick(cells, keep, i) ==
    IF i > Len(cells) THEN <<>>
    ELSE (IF i \in keep THEN <<cells[i]>> ELSE <<>>) \o Pick(cells, keep, i + 1)

\* df.dropna(how='all')
dropna_all(frame) ==
    LET keep == {i \in 1..len(frame) :
                    \E j \in 1..Len(frame.cols) : frame.cols[j].cells[i].k # "nan"}
    IN  DataFrame([j \in 1..Len(frame.cols) |->
            [frame.cols[j] EXCEPT !.cells = Pick(frame.cols[j].cells, keep, 1)]])

\* df.empty
empty(frame) == Len(frame.cols) = 0 \/ len(frame) = 0

\* df.columns = df.columns.str.strip()
strip_columns(frame) ==
    DataFrame([j \in 1..Len(frame.cols) |->
        [frame.cols[j] EXCEPT !.name = strip(frame.cols[j].name)]])

\* lines 372-429: the DataFrame the spreadsheet branch hands on
excel_frame(rows) ==
    dropna_all(convert_all(
        frame_of(SubSeq(rows, 3, Len(rows)), merge_headers(rows[1], rows[2]))))

\* lines 448-449: the DataFrame given to detect_column_types
prepared(frame) == dropna_all(strip_columns(frame))

(***************************************************************************)
(* Workbooks read by SpecExcel: one or two columns, two header rows, data  *)
(* rows whose cells follow one pattern per column.                         *)
(***************************************************************************)
MaxDataRows == 3


\* '', 'BIOKIMIA', ' BIOKIMIA', 'biokimia', 'Profil Darah', 'Berat',
\* 'Tanggal', 'nan'
MainHeaders ==
    {<<>>,
     <<"B", "I", "O", "K", "I", "M", "I", "A">>,
     <<" ", "B", "I", "O", "K", "I", "M", "I", "A">>,
     <<"b", "i", "o", "k", "i", "m", "i", "a">>,
     <<"P", "r", "o", "f", "i", "l", " ", "D", "a", "r", "a", "h">>,
     <<"B", "e", "r", "a", "t">>,
     <<"T", "a", "n", "g", "g", "a", "l">>,
     T_nan}

\* 'Glukosa', 'Tanggal', 'Umur', '', 'Tanggal Lahir', 'NO', ' Umur'
SubHeaders ==
    {<<"G", "l", "u", "k", "o", "s", "a">>,
     <<"T", "a", "n", "g", "g", "a", "l">>,
     <<"U", "m", "u", "r">>,
     <<>>,
     <<"T", "a", "n", "g", "g", "a", "l", " ", "L", "a", "h", "i", "r">>,
     <<"N", "O">>,
     <<" ", "U", "m", "u", "r">>}

\* the second column of a two-column workbook: '' or 'BIOKIMIA' over
\* 'Glukosa' or ''
MainHeaders2 == {<<>>, <<"B", "I", "O", "K", "I", "M", "I", "A">>}
SubHeaders2 == {<<"G", "l", "u", "k", "o", "s", "a">>, <<>>}

Patterns ==
    {"decimals", "marker", "ints", "datelike", "blank", "labels", "stamps", "gap"}

\* the text of data row i in a column of the given pattern
CellText(pattern, i) ==
    CASE pattern = "decimals" ->
            (IF i = 2 THEN <<"2", ",", "5">>
             ELSE IF i = 3 THEN <<"3", ".", "1">> ELSE NatToText(i))
      [] pattern = "marker" -> (IF i = 1 THEN <<"T", "0">> ELSE NatToText(i))
      [] pattern = "ints" -> NatToText(i)
      [] pattern = "datelike" ->
            (IF i = 1 THEN <<"1", "2", "/", "5">> ELSE NatToText(i))
      [] pattern = "blank" -> <<>>
      [] pattern = "gap" -> (IF i = 2 THEN <<>> ELSE NatToText(i))
      [] pattern = "labels" -> Label(i + 2)
      [] OTHER -> DateText(i) \o <<" ", "0", "0", ":", "0", "0", ":", "0", "0">>

Sheet(h1, h2, pats, rows) ==
    <<h1, h2>> \o
    [i \in 1..rows |-> [j \in 1..Len(pats) |-> CellText(pats[j], i)]]

Workbooks ==
    {Sheet(<<m>>, <<s>>, <<p>>, r) :
        m \in MainHeaders, s \in SubHeaders, p \in Patterns, r \in 0..MaxDataRows}
    \cup
    {Sheet(<<m, m2>>, <<s, s2>>, <<p, p2>>, MaxDataRows) :
        m \in MainHeaders, s \in SubHeaders, p \in {"ints", "labels"},
        m2 \in MainHeaders2, s2 \in SubHeaders2, p2 \in {"ints", "blank"}}
    \cup {<<>>, <<<<T_nan>>>>}

(***************************************************************************)
(* SpecExcel: the spreadsheet branch run on a workbook, to its end.        *)
(***************************************************************************)
InitExcel ==
    /\ raw_data \in Workbooks
    /\ df = EmptyFrame
    /\ src = EmptyFrame
    /\ tipe_data = <<>>
    /\ passes = 0
    /\ raised = ""
    /\ new_columns = <<>>
    /\ pc = "read"
    /\ SessionIdle

\* lines 367-464 of the upload handler
ReadExcel ==
    /\ pc = "read"
    /\ IF Len(raw_data) < 3
       THEN /\ pc' = "stopped"
            /\ UNCHANGED <<df, src, tipe_data, passes, raised, new_columns>>
       ELSE LET frame == excel_frame(raw_data)
                ready == prepared(frame)
                r == detect_column_types(ready)
                t == get_column_types(r.df)
            IN  /\ new_columns' = merge_headers(raw_data[1], raw_data[2])
                /\ IF empty(frame)
                   THEN /\ pc' = "stopped"
                        /\ UNCHANGED <<df, src, tipe_data, passes, raised>>
                   ELSE /\ src' = ready
                        /\ passes' = 1
                        /\ IF r.raised \/ t.raised
                           THEN /\ raised' = "detect_column_types"
                                /\ df' = EmptyFrame
                                /\ tipe_data' = <<>>
                                /\ pc' = "failed"
                           ELSE /\ raised' = ""
                                /\ df' = r.df
                                /\ tipe_data' = t.tipe_data
                                /\ pc' = "stored"
    /\ UNCHANGED raw_data
    /\ UNCHANGED session

NextExcel == ReadExcel

SpecExcel == InitExcel /\ [][NextExcel]_vars

(***************************************************************************)
(* The page script, run from top to bottom once per user interaction.      *)
(*                                                                         *)
(* Streamlit keeps st.session_state and the widget values between runs.    *)
(* A widget that a run does not render loses its value.  st.data_editor    *)
(* keeps its pending edits as long as it is rendered over the same data.   *)
(* st.stop() ends the run and is not caught by `except Exception`.         *)
(***************************************************************************)
MaxEdits == 2      \* edits made in the grid during one session
MaxEditRow == 1    \* the user changes and deletes rows among the first ones

InputMethods == {"Upload File", "Input Manual"}
AnalysisTypes == {"Data Editor", "Statistik", "Marketing", "Visualisasi"}
TipeData ==
    {"number (angka)", "text (teks)", "date (tanggal)", "category (kategori)"}

\* the names typed in the field "Nama Kolom:"
ManualNames == {NameA, NameB, <<>>}

(***************************************************************************)
(* The files put in the uploader.  A CSV file is the table pd.read_csv     *)
(* makes of it: header names as written, numeric text still text only in a *)
(* column that also holds other text, blank cells NaN.                     *)
(***************************************************************************)
CsvFile(frame) == [type |-> "csv", df |-> frame]
XlsxFile == [type |-> "xlsx", df |-> EmptyFrame]

\* a: T0, T1, (blank)
FileLabels ==
    CsvFile(DataFrame(<<Series(NameA, "object", TextCells(0, 2, 0, 1, "int", NaN))>>))
\* a: 1, 2, 3, T0
FileSingle ==
    CsvFile(DataFrame(<<Series(NameA, "object", TextCells(3, 1, 0, 0, "int", NaN))>>))
\* a: 1, 2, 3, T0   b: T0, T1, g3, g4
FileMixed ==
    CsvFile(DataFrame(<<Series(NameA, "object", TextCells(3, 1, 0, 0, "int", NaN)),
                        Series(NameB, "object", TextCells(0, 4, 0, 0, "int", NaN))>>))
\* 'a' and 'a ': T0, T1 under both
FilePadded ==
    CsvFile(DataFrame(<<Series(NameA, "object", TextCells(0, 2, 0, 0, "int", NaN)),
                        Series(NameA \o <<" ">>, "object",
                               TextCells(0, 2, 0, 0, "int", NaN))>>))
\* ' b': 2024-01-01, 2024-01-02
FileDates ==
    CsvFile(DataFrame(<<Series(<<" ">> \o NameB, "object",
                               TextCells(0, 0, 2, 0, "int", NaN))>>))
\* a header line and no data line
\* a: 1, 2, 3, T0   b: T0 in every row
FileOneGroup ==
    CsvFile(DataFrame(<<Series(NameA, "object", TextCells(3, 1, 0, 0, "int", NaN)),
                        Series(NameB, "object", <<Str(Label(1)), Str(Label(1)), Str(Label(1)), Str(Label(1))>>)>>))
\* a: 1, 2, 3, T0   b: T0, T1, T1, (blank)
FileGroupGap ==
    CsvFile(DataFrame(<<Series(NameA, "object", TextCells(3, 1, 0, 0, "int", NaN)),
                        Series(NameB, "object",
                               <<Str(Label(1)), Str(Label(2)), Str(Label(2)), NaN>>)>>))
FileNoRows == CsvFile(DataFrame(<<Series(NameA, "object", <<>>)>>))
\* an empty file: pd.read_csv raises EmptyDataError
FileNoColumns == CsvFile(EmptyFrame)

Files ==
    {FileLabels, FileSingle, FileMixed, FilePadded, FileDates, FileOneGroup,
     FileGroupGap, FileNoRows, FileNoColumns, XlsxFile}

(***************************************************************************)
(* The upload block, lines 336-464.                                        *)
(***************************************************************************)
\* lines 451-455: types the tags of the detected table; an exception reaches
\* the outer except, which empties the session
stored(ss, frame, types) ==
    IF types.raised THEN [outcome |-> "cleared", session_state |-> NewSession]
    ELSE [outcome |-> "stored",
          session_state |-> [data_manual |-> frame,
                             nama_kolom_manual |-> columns(frame),
                             tipe_data_kolom |-> types.tipe_data]]

\* the outer except written without lines 463-464
detected_stored_table_reset(ss, detected) ==
    IF detected.raised
    THEN [outcome |-> "cleared", session_state |-> [ss EXCEPT !.data_manual = EmptyFrame]]
    ELSE stored(ss, detected.df, get_column_types(detected.df))

\* the load written to keep a table that is already stored
detected_stored_once(ss, detected) ==
    IF ss.nama_kolom_manual # <<>> THEN [outcome |-> "stopped", session_state |-> ss]
    ELSE IF detected.raised THEN [outcome |-> "cleared", session_state |-> NewSession]
    ELSE stored(ss, detected.df, get_column_types(detected.df))

\* lines 450-455: detected the result of detect_column_types
detected_stored(ss, detected) ==
    IF detected.raised THEN [outcome |-> "cleared", session_state |-> NewSession]
    ELSE stored(ss, detected.df, get_column_types(detected.df))

\* lines 448-450, file by file: what detect_column_types returns on the
\* table read from the file
Detected == [file \in Files |-> detect_column_types(prepared(file.df))]

\* openpyxl is not imported: line 351 raises NameError, the inner except
\* reports it and stops the run.  An exception of the CSV branch reaches the
\* outer except, which empties the session.
upload(ss, file) ==
    IF file.type # "csv" THEN [outcome |-> "stopped", session_state |-> ss]
    ELSE IF Len(file.df.cols) = 0
    THEN [outcome |-> "cleared", session_state |-> NewSession]
    ELSE IF empty(file.df) THEN [outcome |-> "stopped", session_state |-> ss]
    ELSE detected_stored(ss, Detected[file])

(***************************************************************************)
(* Manual input, lines 466-503.                                            *)
(***************************************************************************)
InList(x, list) == \E k \in 1..Len(list) : list[k] = x

\* pd.DataFrame(columns=names)
frame_of_columns(names) ==
    DataFrame([j \in 1..Len(names) |-> Series(names[j], "object", <<>>)])

\* the button written without the test "not in nama_kolom_manual"
add_column_unguarded(ss, nama_kolom, tipe) ==
    IF nama_kolom # <<>>
    THEN [data_manual |-> frame_of_columns(Append(ss.nama_kolom_manual, nama_kolom)),
          nama_kolom_manual |-> Append(ss.nama_kolom_manual, nama_kolom),
          tipe_data_kolom |-> Append(ss.tipe_data_kolom, tipe)]
    ELSE ss

\* the button written without the test "if nama_kolom"
add_column_unnamed(ss, nama_kolom, tipe) ==
    IF ~InList(nama_kolom, ss.nama_kolom_manual)
    THEN [data_manual |-> frame_of_columns(Append(ss.nama_kolom_manual, nama_kolom)),
          nama_kolom_manual |-> Append(ss.nama_kolom_manual, nama_kolom),
          tipe_data_kolom |-> Append(ss.tipe_data_kolom, tipe)]
    ELSE ss

\* the button written without line 486
add_column_untagged(ss, nama_kolom, tipe) ==
    IF nama_kolom # <<>> /\ ~InList(nama_kolom, ss.nama_kolom_manual)
    THEN [data_manual |-> frame_of_columns(Append(ss.nama_kolom_manual, nama_kolom)),
          nama_kolom_manual |-> Append(ss.nama_kolom_manual, nama_kolom),
          tipe_data_kolom |-> ss.tipe_data_kolom]
    ELSE ss

\* the button written with the new column added to the stored table
add_column_keeps_rows(ss, nama_kolom, tipe) ==
    IF nama_kolom # <<>> /\ ~InList(nama_kolom, ss.nama_kolom_manual)
    THEN [data_manual |->
              DataFrame(Append(ss.data_manual.cols,
                               Series(nama_kolom, "object",
                                      [i \in 1..len(ss.data_manual) |-> NaN]))),
          nama_kolom_manual |-> Append(ss.nama_kolom_manual, nama_kolom),
          tipe_data_kolom |-> Append(ss.tipe_data_kolom, tipe)]
    ELSE ss

\* button "Tambah Kolom"
add_column(ss, nama_kolom, tipe) ==
    IF nama_kolom # <<>> /\ ~InList(nama_kolom, ss.nama_kolom_manual)
    THEN [data_manual |-> frame_of_columns(Append(ss.nama_kolom_manual, nama_kolom)),
          nama_kolom_manual |-> Append(ss.nama_kolom_manual, nama_kolom),
          tipe_data_kolom |-> Append(ss.tipe_data_kolom, tipe)]
    ELSE ss

\* the button written without line 501
reset_lists_only(ss) ==
    IF ss.nama_kolom_manual # <<>>
    THEN [ss EXCEPT !.nama_kolom_manual = <<>>, !.tipe_data_kolom = <<>>]
    ELSE ss

\* button "Reset Data"
reset(ss) == IF ss.nama_kolom_manual # <<>> THEN NewSession ELSE ss

\* lines 482-502: st.success or st.error of the button pressed
manual_message(ss, pressed) ==
    CASE pressed.button = "add" ->
            IF pressed.nama_kolom = <<>> THEN "error: empty"
            ELSE IF InList(pressed.nama_kolom, ss.nama_kolom_manual)
            THEN "error: exists"
            ELSE "success"
      [] pressed.button = "reset" ->
            IF ss.nama_kolom_manual # <<>> THEN "success" ELSE "none"
      [] OTHER -> "none"

manual(ss, pressed) ==
    CASE pressed.button = "add" ->
            add_column(ss, pressed.nama_kolom, pressed.tipe_data)
      [] pressed.button = "reset" -> reset(ss)
      [] OTHER -> ss

(***************************************************************************)
(* The Data Editor, lines 552-592.                                         *)
(***************************************************************************)
\* what the grid lets the user put in a cell of the column
EditValues(c) ==
    IF c.dtype \in {"int64", "float64"} THEN {Num(9 * Scale), NaN}
    ELSE IF c.dtype = "datetime64[ns]" THEN {NaN}
    ELSE {Str(<<"x">>), NaN}

\* <<row, column, value>>: the cells the user can change, with their new
\* value
EditRows(data) == {i \in 1..len(data) : i <= MaxEditRow}

CellEdits(data) ==
    {c \in EditRows(data) \X Cols(data) \X {Num(9 * Scale), Str(<<"x">>), NaN} :
        /\ c[3] \in EditValues(data.cols[c[2]])
        /\ c[3] # data.cols[c[2]].cells[c[1]]}

\* the states of the grid one more edit away: a cell changed, a row added
\* (empty, or with its first cell filled), a row deleted
Edits(ed) ==
    LET data == ed.data
        rows == EditRows(data)
    IN  {[ed EXCEPT !.edited_rows =
                {e \in @ : e[1] # c[1] \/ e[2] # c[2]} \cup {c}] :
            c \in CellEdits(data)}
        \cup
        {[ed EXCEPT !.added_rows =
                Append(@, [j \in Cols(data) |-> IF j = 1 THEN v ELSE NaN])] :
            v \in EditValues(data.cols[1])}
        \cup
        {[ed EXCEPT !.deleted_rows = @ \cup {i}] : i \in rows}

\* a number column comes back from the grid as int64 or float64 according
\* to its cells
retype(c) ==
    IF c.dtype \in {"int64", "float64"} THEN [c EXCEPT !.dtype = to_numeric(c).dtype]
    ELSE c

EditedCell(ed, i, j, old) ==
    IF \E e \in ed.edited_rows : e[1] = i /\ e[2] = j
    THEN (CHOOSE e \in ed.edited_rows : e[1] = i /\ e[2] = j)[3]
    ELSE old

\* the grid: the rows of data with the changed cells, then the added rows
grid_rows(data, ed) ==
    DataFrame([j \in Cols(data) |->
        [data.cols[j] EXCEPT !.cells =
            [i \in 1..Len(@) |-> EditedCell(ed, i, j, @[i])]
            \o [k \in 1..Len(ed.added_rows) |-> ed.added_rows[k][j]]]])

select_rows(frame, keep) ==
    DataFrame([j \in Cols(frame) |->
        retype([frame.cols[j] EXCEPT !.cells = Pick(@, keep, 1)])])

\* edited_df as st.data_editor returns it
data_editor(data, ed) ==
    select_rows(grid_rows(data, ed), (1..(len(data) + Len(ed.added_rows))) \ ed.deleted_rows)

\* the tag zip(nama_kolom_manual, tipe_data_kolom) pairs with the name
TagOf(ss, name) ==
    LET n == IF Len(ss.nama_kolom_manual) < Len(ss.tipe_data_kolom)
             THEN Len(ss.nama_kolom_manual) ELSE Len(ss.tipe_data_kolom)
        at == {k \in 1..n : ss.nama_kolom_manual[k] = name}
    IN  IF at = {} THEN "" ELSE ss.tipe_data_kolom[CHOOSE k \in at : \A m \in at : m <= k]

\* lines 565-569
coerce_by_tag(ss, frame) ==
    DataFrame([j \in Cols(frame) |->
        LET tipe == TagOf(ss, frame.cols[j].name)
        IN  IF tipe = "number (angka)" THEN to_numeric(frame.cols[j])
            ELSE IF tipe = "date (tanggal)" THEN to_datetime(frame.cols[j])
            ELSE frame.cols[j]])

KeptRows(frame) ==
    {i \in 1..len(frame) :
        \E j \in Cols(frame) : frame.cols[j].cells[i].k # "nan"}

\* `edited_df != data_manual` at line 576 raises ValueError unless both
\* tables bear the same row labels: no row deleted, every added row dropped
\* again by dropna, no other row dropped
identically_labeled(ss, ed, coerced) ==
    /\ ed.deleted_rows = {}
    /\ KeptRows(coerced) = 1..len(ss.data_manual)

\* lines 572-592: coerced the grid after the coercion by tag
update_coerced(ss, ed, coerced) ==
    IF identically_labeled(ss, ed, coerced)
    THEN [outcome |-> "stored",
          session_state |-> [ss EXCEPT !.data_manual = dropna_all(coerced)]]
    ELSE [outcome |-> "error", session_state |-> ss]

\* lines 562-592: edited_df the grid as st.data_editor returned it
update_edited(ss, ed, edited_df) ==
    IF edited_df = ss.data_manual THEN [outcome |-> "same", session_state |-> ss]
    ELSE update_coerced(ss, ed, coerce_by_tag(ss, edited_df))

\* lines 553-592
update(ss, data, ed) == update_edited(ss, ed, data_editor(data, ed))

(***************************************************************************)
(* The Statistik branch, lines 594-1029: of its eleven tests the one-way   *)
(* ANOVA and the Kruskal-Wallis test.  The two column selectboxes stand at *)
(* their first option.  A test of scipy is a call with its groups.         *)
(***************************************************************************)
StatTypes == {"ANOVA (One-Way ANOVA)", "Uji Kruskal-Wallis"}

\* display_df.select_dtypes(include=[...]).columns
select_dtypes(frame, include) == {j \in Cols(frame) : frame.cols[j].dtype \in include}
First(S) == CHOOSE j \in S : \A k \in S : j <= k

\* the keys of display_df.groupby(by): the values of the column, missing
\* ones left out
groupby(frame, by) ==
    {frame.cols[by].cells[i] : i \in {k \in 1..len(frame) : frame.cols[by].cells[k].k # "nan"}}

\* display_df[col].unique(): the values of the column, a missing one among
\* them
unique(frame, col) == {frame.cols[col].cells[i] : i \in 1..len(frame)}

\* lines 611-645
anova(frame) ==
    LET numeric_cols == select_dtypes(frame, {"int64", "float64"})
        categorical_cols == select_dtypes(frame, {"object", "category"})
        groups == Cardinality(groupby(frame, First(categorical_cols)))
    IN  IF numeric_cols # {} /\ categorical_cols # {}
        THEN IF groups >= 2
             THEN [test |-> "f_oneway", outcome |-> "computed", groups |-> groups]
             ELSE [test |-> "f_oneway", outcome |-> "error", groups |-> groups]
        ELSE [test |-> "f_oneway", outcome |-> "none", groups |-> 0]

\* lines 954-992
kruskal_wallis(frame) ==
    LET numeric_cols == select_dtypes(frame, {"int64", "float64"})
        categorical_cols == select_dtypes(frame, {"object", "category"})
        cat_var == First(categorical_cols)
        groups == Cardinality(groupby(frame, cat_var))
    IN  IF numeric_cols # {} /\ categorical_cols # {}
        THEN IF Cardinality(unique(frame, cat_var)) >= 3
             THEN [test |-> "kruskal", outcome |-> "computed", groups |-> groups]
             ELSE [test |-> "kruskal", outcome |-> "error", groups |-> groups]
        ELSE [test |-> "kruskal", outcome |-> "error", groups |-> 0]

statistik(frame, stat_type) ==
    IF stat_type = "ANOVA (One-Way ANOVA)" THEN anova(frame)
    ELSE kruskal_wallis(frame)

(***************************************************************************)
(* One run of the script, lines 286-1293, with the widgets at w and the    *)
(* button pressed.                                                         *)
(***************************************************************************)
\* the end of the run: upd the outcome of the Data Editor block, if it ran
script_end(ss, w, pressed, event, up, display, section, analysis, ed, upd) ==
    [session_state |-> upd.session_state,
     widgets |-> [input_method |-> w.input_method,
                  uploaded_file |-> IF w.input_method = "Input Manual" THEN NoFile
                                    ELSE w.uploaded_file,
                  analysis_type |-> analysis,
                  data_editor |-> ed,
                  stat_type |-> IF section /\ analysis = "Statistik" THEN w.stat_type
                                ELSE "ANOVA (One-Way ANOVA)"],
     display_df |-> display,
     shown |-> IF section THEN {"section", analysis} ELSE {},
     last |-> [event |-> event, upload |-> up.outcome,
               update |-> upd.outcome, before |-> ss, edits |-> 0,
               by_hand |-> TRUE,
               pressed |-> pressed,
               manual |-> IF w.input_method = "Input Manual"
                          THEN manual_message(ss, pressed) ELSE "none",
               stat |-> IF section /\ analysis = "Statistik"
                        THEN statistik(display, w.stat_type) ELSE NoTest]]

\* lines 552-592: the grid ed is rendered over display when editor holds
script_editor(ss, w, pressed, event, up, ss1, display, section, analysis, editor, ed) ==
    script_end(ss, w, pressed, event, up, display, section, analysis, ed,
               IF editor THEN update(ss1, display, ed)
               ELSE [outcome |-> "none", session_state |-> ss1])

\* lines 505-520: display_df is the stored table at this point of the run
script_display(ss, w, pressed, event, up, ss1, display) ==
    LET section == up.outcome # "stopped" /\ ~empty(display)
        analysis == IF section THEN w.analysis_type ELSE "Data Editor"
        editor == section /\ analysis = "Data Editor"
    IN  script_editor(ss, w, pressed, event, up, ss1, display, section, analysis, editor,
                      IF editor /\ w.data_editor.data = display THEN w.data_editor
                      ELSE NoEdits(IF editor THEN display ELSE EmptyFrame))

\* lines 466-506: up the outcome of the upload block, if it ran
script_input(ss, w, pressed, event, up, ss1) ==
    script_display(ss, w, pressed, event, up, ss1,
                   IF up.outcome = "stopped" THEN EmptyFrame ELSE ss1.data_manual)

script_upload(ss, w, pressed, event, up) ==
    script_input(ss, w, pressed, event, up,
                 IF w.input_method = "Input Manual" THEN manual(ss, pressed)
                 ELSE up.session_state)

script(ss, w, pressed, event) ==
    script_upload(ss, w, pressed, event,
                  IF w.input_method # "Input Manual" /\ w.uploaded_file.type # "none"
                  THEN upload(ss, w.uploaded_file)
                  ELSE [outcome |-> "none", session_state |-> ss])

(***************************************************************************)
(* Spec: the session, one action per user interaction.                     *)
(***************************************************************************)
Init ==
    /\ df = EmptyFrame
    /\ src = EmptyFrame
    /\ tipe_data = <<>>
    /\ passes = 0
    /\ raised = ""
    /\ raw_data = <<>>
    /\ new_columns = <<>>
    /\ pc = "session"
    /\ SessionIdle

\* what the run r leaves behind
Rerun(r, event) ==
    /\ session_state' = r.session_state
    /\ widgets' = r.widgets
    /\ display_df' = r.display_df
    /\ shown' = r.shown
    /\ last' = [r.last EXCEPT
                    !.edits = last.edits + (IF event = "EditGrid" THEN 1 ELSE 0),
                    !.by_hand = last.by_hand /\ event # "UploadFile"]
    /\ UNCHANGED engine

Run(w, pressed, event) == Rerun(script(session_state, w, pressed, event), event)

\* the radio "Pilih Metode Input Data:"
ChooseInputMethod ==
    /\ pc = "session"
    /\ \E m \in InputMethods \ {widgets.input_method} :
          Run([widgets EXCEPT !.input_method = m], NoButton, "ChooseInputMethod")

\* a file put in the uploader
UploadFile ==
    /\ pc = "session"
    /\ widgets.input_method = "Upload File"
    /\ \E f \in Files :
          Run([widgets EXCEPT !.uploaded_file = f], NoButton, "UploadFile")

\* the file taken out of the uploader
RemoveFile ==
    /\ pc = "session"
    /\ widgets.uploaded_file # NoFile
    /\ Run([widgets EXCEPT !.uploaded_file = NoFile], NoButton, "RemoveFile")

\* button "Tambah Kolom"
TambahKolom ==
    /\ pc = "session"
    /\ widgets.input_method = "Input Manual"
    /\ \E n \in ManualNames, t \in TipeData :
          Run(widgets, [button |-> "add", nama_kolom |-> n, tipe_data |-> t],
              "TambahKolom")

\* button "Reset Data"
ResetData ==
    /\ pc = "session"
    /\ widgets.input_method = "Input Manual"
    /\ Run(widgets, [button |-> "reset", nama_kolom |-> <<>>, tipe_data |-> ""],
           "ResetData")

\* the radio "Pilih Jenis Analisis:"
ChooseAnalysis ==
    /\ pc = "session"
    /\ "section" \in shown
    /\ \E a \in AnalysisTypes \ {widgets.analysis_type} :
          Run([widgets EXCEPT !.analysis_type = a], NoButton, "ChooseAnalysis")

\* the selectbox "Pilih Jenis Analisis:" of the Statistik branch
ChooseStat ==
    /\ pc = "session"
    /\ "Statistik" \in shown
    /\ \E t \in StatTypes \ {widgets.stat_type} :
          Run([widgets EXCEPT !.stat_type = t], NoButton, "ChooseStat")

\* a cell changed, a row added or a row deleted in the grid
EditGrid ==
    /\ pc = "session"
    /\ "Data Editor" \in shown
    /\ last.edits < MaxEdits
    /\ \E e \in Edits(widgets.data_editor) :
          Run([widgets EXCEPT !.data_editor = e], NoButton, "EditGrid")

Next ==
    \/ ChooseInputMethod
    \/ UploadFile
    \/ RemoveFile
    \/ TambahKolom
    \/ ResetData
    \/ ChooseAnalysis
    \/ ChooseStat
    \/ EditGrid

Spec == Init /\ [][Next]_vars

(***************************************************************************)
(* The ratio metrics of the Marketing branch, lines 1047-1089.  The branch *)
(* reads nothing but its own number inputs.  A metric is held in           *)
(* hundredths of a percent, rounded down.                                  *)
(***************************************************************************)
MaxAmount == 7     \* largest value typed in a number input

MarketingMetrics == {"ROI (Return on Investment)", "CTR (Click Through Rate)"}

\* the guard written as "defined as zero when the denominator is zero"
roi_zero(revenue, investment) ==
    IF investment > 0
    THEN {[metric |-> "ROI",
           value |-> ((revenue - investment) * 100 * Scale) \div investment]}
    ELSE {[metric |-> "ROI", value |-> 0]}

\* lines 1056-1058: what st.metric renders
roi(revenue, investment) ==
    IF investment > 0
    THEN {[metric |-> "ROI",
           value |-> ((revenue - investment) * 100 * Scale) \div investment]}
    ELSE {}

\* lines 1079-1081
ctr(clicks, impressions) ==
    IF impressions > 0
    THEN {[metric |-> "CTR", value |-> (clicks * 100 * Scale) \div impressions]}
    ELSE {}

\* lines 1047-1089: w the selectbox and the two number inputs
marketing(w) ==
    IF w.marketing_metric = "ROI (Return on Investment)"
    THEN roi(w.numerator, w.denominator)
    ELSE ctr(w.numerator, w.denominator)

InitMarketing ==
    /\ df = EmptyFrame
    /\ src = EmptyFrame
    /\ tipe_data = <<>>
    /\ passes = 0
    /\ raised = ""
    /\ raw_data = <<>>
    /\ new_columns = <<>>
    /\ pc = "marketing"
    /\ session_state = NewSession
    /\ display_df = EmptyFrame
    /\ shown = {}
    /\ last = NoInteraction
    /\ widgets \in [marketing_metric : MarketingMetrics,
                    numerator : 0..MaxAmount,
                    denominator : 0..MaxAmount]

\* one run of the Marketing branch
Marketing ==
    /\ pc = "marketing"
    /\ passes = 0
    /\ passes' = 1
    /\ shown' = marketing(widgets)
    /\ UNCHANGED <<df, src, tipe_data, raised, raw_data, new_columns, pc,
                   session_state, widgets, display_df, last>>

NextMarketing == Marketing

SpecMarketing == InitMarketing /\ [][NextMarketing]_vars

(***************************************************************************)
(* Notions the claims are stated with.                                     *)
(***************************************************************************)
\* a cell the specification calls empty: missing, '' or the text 'nan'
IsEmptyCell(x) == x.k = "nan" \/ (x.k = "str" /\ strip(x.s) \in {<<>>, T_nan})
NonEmpty(c) == {i \in 1..Len(c.cells) : ~IsEmptyCell(c.cells[i])}
NumericParsable(c) == {i \in 1..Len(c.cells) : CellToNum(c.cells[i]).k = "num"}
DateParsable(c) == {i \in 1..Len(c.cells) : CellToTs(c.cells[i]).k = "ts"}
Holding(c, kind) == {i \in 1..Len(c.cells) : c.cells[i].k = kind}
IsNumberCol(c) == c.dtype \in {"int64", "float64"}
IsDateCol(c) == c.dtype = "datetime64[ns]"
HasMarker(x) ==
    x.k = "str" /\ (contains(x.s, <<"T", "0">>) \/ contains(x.s, <<"T", "1">>))

\* detect_column_types has returned normally: src is its argument, df its
\* result
Coerced == pc = "engine" /\ passes >= 1 /\ raised = ""

(***************************************************************************)
(* C1. Coercion is idempotent: detect_column_types applied to its own      *)
(* output returns the same table, dtype by dtype and cell by cell.         *)
(* (Refuted: a column made numeric by the first call is made datetime by   *)
(* the second.)                                                            *)
(***************************************************************************)
C1_CoerceTwiceSame ==
    (pc = "engine" /\ passes = 2 /\ raised = "") => df = src

(***************************************************************************)
(* C2. detect_column_types never raises to its caller and returns a table  *)
(* with the rows, columns and column names of its argument.                *)
(* (Refuted: with a column name borne twice the exception leaves it.)      *)
(***************************************************************************)
C2_NeverRaisesSameShape ==
    (pc = "engine" /\ passes >= 1) =>
        /\ raised = ""
        /\ columns(df) = columns(src)
        /\ len(df) = len(src)

(***************************************************************************)
(* C3. At the end of a spreadsheet load a column, not on the denylist, in  *)
(* which every non-empty cell matches the numeric pattern is a number      *)
(* column whose cells are the numbers read with ',' as decimal point.      *)
(* (Refuted: the numbers are turned into timestamps.)                      *)
(***************************************************************************)
RawCell(i, j) == raw_data[i + 2][j]
RawRows == 1..(Len(raw_data) - 2)

C3_DecimalCommaToFloat ==
    pc = "stored" =>
        \A j \in Cols(df) :
            ( /\ ~denied(df.cols[j].name)
              /\ \E i \in RawRows : strip(RawCell(i, j)) # <<>>
              /\ \A i \in RawRows :
                    \/ strip(RawCell(i, j)) = <<>>
                    \/ match_numeric(replace_comma(strip(RawCell(i, j)))) )
            => /\ IsNumberCol(df.cols[j])
               /\ \A i \in RawRows :
                    strip(RawCell(i, j)) # <<>> =>
                        df.cols[j].cells[i] =
                            Num(FloatValue(replace_comma(strip(RawCell(i, j)))))

(***************************************************************************)
(* C4, as stated. A text column without date cells is coerced to number    *)
(* whenever at least 70% of its non-empty cells parse as numeric.          *)
(***************************************************************************)
C4_InclusiveOverNonEmpty ==
    Coerced =>
        \A j \in Cols(src) :
            LET c == src.cols[j]
            IN  ( /\ c.dtype = "object"
                  /\ DateParsable(c) = {}
                  /\ NonEmpty(c) # {}
                  /\ 10 * Cardinality(NumericParsable(c))
                        >= 7 * Cardinality(NonEmpty(c)) )
                => IsNumberCol(df.cols[j])

(***************************************************************************)
(* C4, amended. A text column that did not meet the date test is coerced   *)
(* to number exactly when more than 70% of the rows of the table parse as  *)
(* numeric: exactly 70% is not enough and blank cells count against the    *)
(* column.  In a coerced column the cells that do not parse are missing.   *)
(***************************************************************************)
C4_StrictOverRows ==
    Coerced =>
        \A j \in Cols(src) :
            LET c == src.cols[j]
                n == len(src)
            IN  ( /\ c.dtype = "object"
                  /\ ~(10 * Cardinality(DateParsable(c)) > 7 * n) )
                => /\ IsNumberCol(df.cols[j])
                        <=> 10 * Cardinality(NumericParsable(c)) > 7 * n
                   /\ IsNumberCol(df.cols[j]) =>
                        \A i \in 1..n :
                            df.cols[j].cells[i].k =
                                IF i \in NumericParsable(c) THEN "num" ELSE "nan"

\* exactly 70% of the rows are numeric and the column is left as text
C4_Witness ==
    /\ Coerced
    /\ \E j \in Cols(src) :
          /\ src.cols[j].dtype = "object"
          /\ len(src) > 0
          /\ 10 * Cardinality(NumericParsable(src.cols[j])) = 7 * len(src)
          /\ df.cols[j].dtype = "object"

(***************************************************************************)
(* C5. A column tagged number holds numbers in at least 70% of the cells   *)
(* that were non-empty before coercion; a column tagged date holds         *)
(* timestamps in at least 70% of them.                                     *)
(***************************************************************************)
C5_TagMeetsThreshold ==
    tipe_data # <<>> =>
        \A j \in Cols(df) :
            /\ tipe_data[j] = "number (angka)" =>
                  10 * Cardinality(Holding(df.cols[j], "num"))
                      >= 7 * Cardinality(NonEmpty(src.cols[j]))
            /\ tipe_data[j] = "date (tanggal)" =>
                  10 * Cardinality(Holding(df.cols[j], "ts"))
                      >= 7 * Cardinality(NonEmpty(src.cols[j]))

\* a text column with unparsable cells was coerced and tagged number
C5_Witness ==
    /\ passes = 1
    /\ tipe_data # <<>>
    /\ \E j \in Cols(df) :
          /\ tipe_data[j] = "number (angka)"
          /\ src.cols[j].dtype = "object"
          /\ NonEmpty(src.cols[j]) \ NumericParsable(src.cols[j]) # {}

C7_MarkerColumnStaysText ==
    Coerced =>
        \A j \in Cols(src) :
            LET c == src.cols[j]
            IN  (c.dtype = "object" /\ \E i \in 1..Len(c.cells) : HasMarker(c.cells[i]))
                => /\ df.cols[j].dtype = "object"
                   /\ \A i \in 1..Len(c.cells) :
                        HasMarker(c.cells[i]) => df.cols[j].cells[i] = c.cells[i]

(***************************************************************************)
(* C8. At the end of a spreadsheet load a column whose name is on the      *)
(* denylist is not a number column and none of its cells is a number.      *)
(* (Refuted: detect_column_types coerces it.)                              *)
(***************************************************************************)
C8_DeniedNameNotNumeric ==
    pc = "stored" =>
        \A j \in Cols(df) :
            denied(df.cols[j].name) =>
                /\ ~IsNumberCol(df.cols[j])
                /\ Holding(df.cols[j], "num") = {}

(***************************************************************************)
(* C9. get_column_types gives one tag per column, in order: number for a   *)
(* number column, date for a timestamp column, otherwise category exactly  *)
(* when the column has at most 10 distinct non-empty values.               *)
(* (Refuted: an empty text counts as a value.)                             *)
(***************************************************************************)
DistinctNonEmpty(c) == {c.cells[i] : i \in NonEmpty(c)}

C9_CategoryAtMostTen ==
    (Coerced /\ tipe_data # <<>>) =>
        /\ Len(tipe_data) = Len(df.cols)
        /\ \A j \in Cols(df) :
              tipe_data[j] =
                  IF IsNumberCol(df.cols[j]) THEN "number (angka)"
                  ELSE IF IsDateCol(df.cols[j]) THEN "date (tanggal)"
                  ELSE IF Cardinality(DistinctNonEmpty(df.cols[j])) <= 10
                       THEN "category (kategori)"
                  ELSE "text (teks)"

(***************************************************************************)
(* C10. In the header merge the final name is the sub-header whenever the  *)
(* main header, surrounding blanks ignored, is blank, equal to the         *)
(* sub-header or one of the category words in any case.                    *)
(* (Refuted: a category cell with a leading blank is not recognised.)      *)
(***************************************************************************)
C10_SubHeaderAlone ==
    new_columns # <<>> =>
        \A j \in 1..Len(new_columns) :
            LET main == strip(raw_data[1][j])
                sub == strip(raw_data[2][j])
            IN  ( /\ sub \notin {<<>>, T_nan}
                  /\ \/ main = <<>>
                     \/ main = sub
                     \/ upper(main) \in CategoryWords )
                => new_columns[j] = sub

(***************************************************************************)
(* Notions of the spreadsheet claims.                                      *)
(***************************************************************************)
IsBlankHeader(h) == h \in {<<>>, T_nan}
IsCategoryLabel(h) == \E w \in CategoryWords : contains(upper(h), w)
MainOf(j) == strip(raw_data[1][j])
SubOf(j) == strip(raw_data[2][j])
Synthetic(j) == T_Column_ \o NatToText(j - 1)

\* the spreadsheet branch went past the numeric step: src holds its result
Converted == pc \in {"stored", "failed"}

DateLikeIn(j) == \E i \in RawRows : contains_datelike(strip(RawCell(i, j)))
NumericRaw(i, j) == match_numeric(replace_comma(strip(RawCell(i, j))))

(***************************************************************************)
(* C11. In the header merge, a main header that is not blank, differs from *)
(* the sub-header and is not a category label gives the final name         *)
(* "{main header} - {sub header}".                                         *)
(* (Refuted: the name is the main header alone.)                           *)
(***************************************************************************)
C11_MainDashSub ==
    new_columns # <<>> =>
        \A j \in 1..Len(new_columns) :
            ( /\ ~IsBlankHeader(MainOf(j))
              /\ ~IsBlankHeader(SubOf(j))
              /\ MainOf(j) # SubOf(j)
              /\ ~IsCategoryLabel(MainOf(j)) )
            => new_columns[j] = MainOf(j) \o <<" ", "-", " ">> \o SubOf(j)

NonBlankRows ==
    {i \in RawRows : \E j \in 1..Len(raw_data[i + 2]) : strip(RawCell(i, j)) # <<>>}

Rank(S, i) == Cardinality({k \in S : k <= i})

ComesFrom(x, t) ==
    LET n == CellToNum(Str(replace_comma(strip(t))))
    IN  \/ x = Str(t)
        \/ x.k = "nan"
        \/ x = n
        \/ x = CellToTs(Str(t))
        \/ x = CellToTs(n)

C13_DataIsRowsFromThird ==
    /\ Len(raw_data) < 3 => (pc # "stored" /\ df = EmptyFrame)
    /\ pc = "stored" =>
          /\ len(df) = Cardinality(NonBlankRows)
          /\ \A i \in NonBlankRows : \A j \in Cols(df) :
                ComesFrom(df.cols[j].cells[Rank(NonBlankRows, i)], RawCell(i, j))

(***************************************************************************)
(* C14, as stated. In the numeric step a cell written digits[/-]digits is  *)
(* left as it is and every cell of its column that matches the numeric     *)
(* pattern is converted as in a column without such a cell.                *)
(***************************************************************************)
C14_ExcludedValueByValue ==
    Converted =>
        \A j \in Cols(src) :
            (~denied(src.cols[j].name) /\ j \notin Duplicated(src)) =>
                \A i \in RawRows :
                    /\ contains_datelike(strip(RawCell(i, j)))
                          => src.cols[j].cells[i] = Str(RawCell(i, j))
                    /\ NumericRaw(i, j)
                          => src.cols[j].cells[i] =
                                Num(FloatValue(replace_comma(strip(RawCell(i, j)))))

(***************************************************************************)
(* C14, amended. In the numeric step a column with a cell containing       *)
(* digits[/-]digits is skipped as a whole: every cell of it, the purely    *)
(* numeric ones too, stays the text it was.  A cell is converted only in a *)
(* column without such a cell, and only if it matches the numeric pattern. *)
(***************************************************************************)
C14_ColumnSkipped ==
    Converted =>
        \A j \in Cols(src) : \A i \in RawRows :
            /\ DateLikeIn(j) => src.cols[j].cells[i] = Str(RawCell(i, j))
            /\ src.cols[j].cells[i].k = "num" => (~DateLikeIn(j) /\ NumericRaw(i, j))
            /\ src.cols[j].cells[i].k \in {"num", "str"}

\* a purely numeric cell stayed text next to a date-like cell
C14_Witness ==
    /\ Converted
    /\ \E j \in Cols(src) : \E i \in RawRows :
          /\ ~denied(src.cols[j].name)
          /\ DateLikeIn(j)
          /\ NumericRaw(i, j)
          /\ src.cols[j].cells[i] = Str(RawCell(i, j))

(***************************************************************************)
(* Notions of the session claims.                                          *)
(***************************************************************************)
Distinct(list) ==
    \A i \in 1..Len(list) : \A j \in 1..Len(list) : list[i] = list[j] => i = j

\* what the file in the uploader gives when loaded into a fresh session
Loaded == upload(NewSession, widgets.uploaded_file).session_state

\* the grid as the latest run returned it, number and date columns coerced,
\* empty rows dropped
EditedGrid ==
    dropna_all(coerce_by_tag(session_state,
                             data_editor(display_df, widgets.data_editor)))

(***************************************************************************)
(* C15. After a successful upload the stored table, the list of column     *)
(* names and the list of tags are those derived from the uploaded file.    *)
(* (Refuted: a file uploaded again over the grid that shows it keeps the   *)
(* edit pending in the grid.)                                              *)
(***************************************************************************)
C15_UploadReplaces ==
    (last.event = "UploadFile" /\ last.upload = "stored") =>
        session_state = Loaded

(***************************************************************************)
(* C16. After Reset was pressed while a table existed, made by an upload   *)
(* or by hand, the stored table, the list of column names and the list of  *)
(* tags are empty.                                                         *)
(***************************************************************************)
C16_ResetDiscards ==
    (last.event = "ResetData" /\ last.before.data_manual # EmptyFrame) =>
        /\ session_state.data_manual = EmptyFrame
        /\ session_state.nama_kolom_manual = <<>>
        /\ session_state.tipe_data_kolom = <<>>

\* Reset was pressed on an uploaded table with rows
C16_Witness ==
    /\ last.event = "ResetData"
    /\ len(last.before.data_manual) > 0
    /\ session_state = NewSession

(***************************************************************************)
(* C17. After a change made in the grid (a cell edited, a row added, a row *)
(* deleted) the stored table is the content of the grid with the number    *)
(* and date columns coerced.                                               *)
(* (Refuted: with a row added or deleted nothing is stored.)               *)
(***************************************************************************)
C17_EditCommitted ==
    last.event = "EditGrid" => session_state.data_manual = EditedGrid

(***************************************************************************)
(* C18. In a session that has only used manual input, once a column has    *)
(* been added the editable grid is shown, so that rows can be typed.       *)
(* (Refuted: a table with columns and no row is empty and nothing is       *)
(* shown.)                                                                 *)
(***************************************************************************)
C18_ManualGridShown ==
    ( /\ last.by_hand
      /\ widgets.input_method = "Input Manual"
      /\ session_state.nama_kolom_manual # <<>> )
    => "Data Editor" \in shown

\* what holds instead: by manual input alone the grid is never shown and
\* the stored table never has a row
C18_NothingByHand ==
    last.by_hand => ("Data Editor" \notin shown /\ len(session_state.data_manual) = 0)

(***************************************************************************)
(* C19. A test or chart chosen by the user operates on the table that was  *)
(* stored when it was chosen, edits included.                              *)
(* (Refuted: with the file still in the uploader the run loads it again    *)
(* and the edit is gone.)                                                  *)
(***************************************************************************)
C19_AnalysisReadsStored ==
    ( /\ last.event = "ChooseAnalysis"
      /\ "section" \in shown
      /\ "Data Editor" \notin shown )
    => display_df = last.before.data_manual

(***************************************************************************)
(* C20. The column names of the stored table, and the names of the list    *)
(* of column names, are pairwise distinct in every state; so are those of  *)
(* the table a spreadsheet load ends with.                                 *)
(***************************************************************************)
C20_NamesDistinct ==
    /\ Distinct(columns(session_state.data_manual))
    /\ Distinct(session_state.nama_kolom_manual)
    /\ pc = "stored" => Distinct(columns(df))

\* a file whose header names differ by surrounding blanks only was
\* uploaded: the load failed and the session is empty
C20_Witness ==
    /\ last.event = "UploadFile"
    /\ \E i \in Cols(widgets.uploaded_file.df) : \E j \in Cols(widgets.uploaded_file.df) :
          /\ i # j
          /\ widgets.uploaded_file.df.cols[i].name # widgets.uploaded_file.df.cols[j].name
          /\ strip(widgets.uploaded_file.df.cols[i].name)
                = strip(widgets.uploaded_file.df.cols[j].name)
    /\ last.upload = "cleared"
    /\ session_state = NewSession

\* the Marketing branch has run, on number inputs whose denominator
\* (investment, impressions) is zero
ZeroDenominator == pc = "marketing" /\ passes = 1 /\ widgets.denominator = 0

(***************************************************************************)
(* C21. With investment = 0 the ROI is the value 0, and with               *)
(* impressions = 0 the CTR is the value 0; no exception is raised.         *)
(* (Refuted: no value is rendered at all.)                                 *)
(***************************************************************************)
C21_ZeroDenominatorGivesZero ==
    ZeroDenominator => (raised = "" /\ \E m \in shown : m.value = 0)

\* what holds instead: with a zero denominator no metric is rendered and
\* nothing is raised; with a positive one the metric rendered is the ratio
\* in percent
C21_ZeroDenominatorSkipped ==
    (pc = "marketing" /\ passes = 1) =>
        /\ raised = ""
        /\ widgets.denominator = 0 => shown = {}
        /\ widgets.denominator > 0 =>
              /\ Cardinality(shown) = 1
              /\ \A m \in shown :
                    /\ m.value * widgets.denominator
                          <= (IF m.metric = "ROI"
                              THEN widgets.numerator - widgets.denominator
                              ELSE widgets.numerator) * 100 * Scale
                    /\ (m.value + 1) * widgets.denominator
                          > (IF m.metric = "ROI"
                             THEN widgets.numerator - widgets.denominator
                             ELSE widgets.numerator) * 100 * Scale

\* ROI asked for with revenue typed and no investment
C21_Witness ==
    /\ ZeroDenominator
    /\ widgets.marketing_metric = "ROI (Return on Investment)"
    /\ widgets.numerator > 0

\* the latest run rendered the test over display_df, with a column of
\* numbers and a grouping column to choose
TestRun(test) ==
    /\ pc = "session"
    /\ "Statistik" \in shown
    /\ last.stat.test = test
    /\ select_dtypes(display_df, {"int64", "float64"}) # {}
    /\ select_dtypes(display_df, {"object", "category"}) # {}
GroupVar == First(select_dtypes(display_df, {"object", "category"}))
\* the groups of observations: the distinct values of the grouping column,
\* missing values left out
GroupsOf(frame, j) ==
    {frame.cols[j].cells[i] : i \in 1..Len(frame.cols[j].cells)} \ {NaN}

(***************************************************************************)
(* C22. One-way ANOVA chosen with a grouping column of one distinct group  *)
(* reports an error and computes nothing, and the interaction that chose   *)
(* it leaves the stored table as it was.                                   *)
(* (Refuted: the run that shows the test loads the file again, and an edit *)
(* stored before is gone.)                                                 *)
(***************************************************************************)
C22_OneGroupAnovaError ==
    ( /\ last.event \in {"ChooseAnalysis", "ChooseStat"}
      /\ TestRun("f_oneway")
      /\ Cardinality(GroupsOf(display_df, GroupVar)) = 1 )
    => /\ last.stat.outcome = "error"
       /\ session_state.data_manual = last.before.data_manual

\* what holds instead: the error is reported, nothing is computed, and the
\* stored table is the one the run displayed
C22_OneGroupAnovaReported ==
    (TestRun("f_oneway") /\ Cardinality(GroupsOf(display_df, GroupVar)) = 1)
    => /\ last.stat.outcome = "error"
       /\ session_state.data_manual = display_df

(***************************************************************************)
(* C23. Whenever the Kruskal-Wallis statistic is computed, at least three  *)
(* groups of observations are passed to the test, missing values of the    *)
(* grouping column not counted; otherwise an error is shown.               *)
(* (Refuted: the guard counts a missing value as a group.)                 *)
(***************************************************************************)
C23_KruskalAtLeastThreeGroups ==
    TestRun("kruskal")
    => IF Cardinality(GroupsOf(display_df, GroupVar)) >= 3
       THEN last.stat.outcome = "computed" /\ last.stat.groups >= 3
       ELSE last.stat.outcome = "error"

\* what holds instead: the test is run exactly when the grouping column has
\* three distinct values, a missing one among them, on the groups of the
\* values that are not missing
C23_KruskalThreeValues ==
    TestRun("kruskal")
    => IF Cardinality(GroupsOf(display_df, GroupVar)
                      \cup {x \in {NaN} : \E i \in 1..len(display_df) :
                                display_df.cols[GroupVar].cells[i] = x}) >= 3
       THEN /\ last.stat.outcome = "computed"
            /\ last.stat.groups = Cardinality(GroupsOf(display_df, GroupVar))
       ELSE last.stat.outcome = "error"

\* the latest interaction ended in a failure: a file not read or rejected,
\* an edit not stored, a test refused, a column not added
Failed ==
    /\ pc = "session"
    /\ \/ last.upload \in {"cleared", "stopped"}
       \/ last.update = "error"
       \/ last.stat.outcome = "error"
       \/ last.manual \in {"error: empty", "error: exists"}

\* the runs of a user who, from the present state, chooses "Upload File"
\* (if it is not chosen), puts the file in the uploader and chooses
\* "Statistik"
AfterMethod ==
    IF widgets.input_method = "Upload File"
    THEN [session_state |-> session_state, widgets |-> widgets]
    ELSE script(session_state, [widgets EXCEPT !.input_method = "Upload File"],
                NoButton, "ChooseInputMethod")
AfterUpload(file) ==
    script(AfterMethod.session_state,
           [AfterMethod.widgets EXCEPT !.uploaded_file = file], NoButton, "UploadFile")
AfterAnalysis(file) ==
    script(AfterUpload(file).session_state,
           [AfterUpload(file).widgets EXCEPT !.analysis_type = "Statistik"],
           NoButton, "ChooseAnalysis")
Recovers(file) ==
    /\ AfterUpload(file).last.upload = "stored"
    /\ AfterAnalysis(file).last.upload = "stored"
    /\ AfterAnalysis(file).session_state.data_manual = upload(NewSession, file).session_state.data_manual
    /\ "Statistik" \in AfterAnalysis(file).shown
    /\ AfterAnalysis(file).last.stat.outcome = "computed"

(***************************************************************************)
(* C24. No failure is fatal: from every state that a failed operation      *)
(* leaves, the user reaches, by choosing the upload, a readable file and   *)
(* an analysis, a state with the file's table stored and a test computed   *)
(* over it, in the same session.                                           *)
(***************************************************************************)
C24_Recoverable == Failed => Recovers(FileMixed)

\* a spreadsheet was refused while a table, edited in the grid before, was
\* stored
C24_Witness ==
    /\ Failed
    /\ last.event = "UploadFile"
    /\ last.upload = "stopped"
    /\ widgets.uploaded_file = XlsxFile
    /\ session_state.nama_kolom_manual # <<>>
    /\ last.edits > 0

(***************************************************************************)
(* C25. In every state of the session the list of column names is the      *)
(* list of the stored table's columns, name by name in the same order, and *)
(* the list of tags has one tag for each name.                             *)
(***************************************************************************)
C25_ListsMatchTable ==
    pc = "session" =>
        /\ session_state.nama_kolom_manual = columns(session_state.data_manual)
        /\ Len(session_state.tipe_data_kolom) = Len(session_state.nama_kolom_manual)

\* a column was added by hand to a table that came from a file and was
\* edited in the grid
C25_Witness ==
    /\ pc = "session"
    /\ last.event = "TambahKolom"
    /\ last.manual = "success"
    /\ ~last.by_hand
    /\ last.edits > 0
    /\ Len(session_state.nama_kolom_manual) > 1

\* the latest interaction was a press of "Tambah Kolom" with a name that
\* is not empty and not in the list of names
Added ==
    /\ pc = "session"
    /\ last.event = "TambahKolom"
    /\ last.pressed.nama_kolom # <<>>
    /\ ~InList(last.pressed.nama_kolom, last.before.nama_kolom_manual)
\* ... with a name that is empty or in the list
Refused ==
    /\ pc = "session"
    /\ last.event = "TambahKolom"
    /\ \/ last.pressed.nama_kolom = <<>>
       \/ InList(last.pressed.nama_kolom, last.before.nama_kolom_manual)

(***************************************************************************)
(* C26. A column added by hand replaces the stored table by a table of no  *)
(* row whose columns are the new list of names: the rows stored before are *)
(* gone, and the name and its tag are at the end of their lists.           *)
(***************************************************************************)
C26_AddColumnEmptiesTable ==
    Added =>
        /\ last.manual = "success"
        /\ session_state.nama_kolom_manual
              = Append(last.before.nama_kolom_manual, last.pressed.nama_kolom)
        /\ session_state.tipe_data_kolom
              = Append(last.before.tipe_data_kolom, last.pressed.tipe_data)
        /\ columns(session_state.data_manual) = session_state.nama_kolom_manual
        /\ len(session_state.data_manual) = 0
        /\ \A j \in Cols(session_state.data_manual) :
              session_state.data_manual.cols[j].cells = <<>>

\* a column added to a table that had rows
C26_Witness ==
    /\ Added
    /\ len(last.before.data_manual) > 0
    /\ len(session_state.data_manual) = 0

(***************************************************************************)
(* C27. "Tambah Kolom" pressed with an empty name, or with a name that is  *)
(* in the list already, changes nothing (names, tags, stored table) and    *)
(* shows an error.                                                         *)
(***************************************************************************)
C27_RefusedColumnNoChange ==
    Refused =>
        /\ session_state = last.before
        /\ last.manual \in {"error: empty", "error: exists"}
        /\ last.manual = "error: empty" <=> last.pressed.nama_kolom = <<>>

\* a name of an uploaded table typed again
C27_Witness ==
    /\ Refused
    /\ last.pressed.nama_kolom # <<>>
    /\ len(session_state.data_manual) > 0
    /\ last.manual = "error: exists"

(***************************************************************************)
(* C28. An edit whose update raises shows an error and leaves the stored   *)
(* table, the names and the tags as they were before the interaction; an   *)
(* edit that is stored leaves the names and the tags as they were.         *)
(* (Refuted: the run of the failing edit loads the file again, and an edit *)
(* stored before is gone.)                                                 *)
(***************************************************************************)
C28_FailedEditNoChange ==
    (pc = "session" /\ last.event = "EditGrid") =>
        /\ last.update = "error" => session_state = last.before
        /\ last.update = "stored" =>
              /\ session_state.nama_kolom_manual = last.before.nama_kolom_manual
              /\ session_state.tipe_data_kolom = last.before.tipe_data_kolom

\* what holds instead: after a failing edit the session is what the upload
\* block of the same run made of the file in the uploader, and what it was
\* before if there is no file
C28_FailedEditKeepsLoaded ==
    (pc = "session" /\ last.event = "EditGrid" /\ last.update = "error") =>
        session_state = (IF widgets.uploaded_file = NoFile THEN last.before ELSE Loaded)

(***************************************************************************)
(* C29. An upload that fails leaves the stored table, the names and the    *)
(* tags either all empty (the failure reached the outer handler) or all as *)
(* they were before the upload (a check stopped the run), never a mix.     *)
(***************************************************************************)
C29_FailedUploadAllOrNothing ==
    (pc = "session" /\ last.event = "UploadFile") =>
        /\ last.upload \in {"stored", "cleared", "stopped"}
        /\ last.upload = "cleared" => session_state = NewSession
        /\ last.upload = "stopped" => session_state = last.before
        /\ last.upload # "stored" => last.update = "none"

\* a file whose load raises was put in the uploader while a table was
\* stored
C29_Witness ==
    /\ pc = "session"
    /\ last.event = "UploadFile"
    /\ last.upload = "cleared"
    /\ last.before.nama_kolom_manual # <<>>
    /\ len(last.before.data_manual) > 0
    /\ session_state = NewSession

\* the latest run rendered one of the three analyses that are not the Data
\* Editor
AnalysisShown ==
    /\ pc = "session"
    /\ "section" \in shown
    /\ "Data Editor" \notin shown

(***************************************************************************)
(* C30. An interaction that chooses Statistik, Marketing or Visualisasi,   *)
(* or a test within them, leaves the stored table, the names and the tags  *)
(* as they were.                                                           *)
(* (Refuted: the run loads the file again, and an edit stored before is    *)
(* gone.)                                                                  *)
(***************************************************************************)
C30_AnalysisReadOnly ==
    (AnalysisShown /\ last.event \in {"ChooseAnalysis", "ChooseStat"})
    => session_state = last.before

\* what holds instead: the three analyses store nothing, the stored table
\* after the run is the table the run displayed
C30_AnalysisWritesNothing ==
    AnalysisShown => (last.update = "none" /\ session_state.data_manual = display_df)

====
